---- MODULE Spec2Model ----
(***************************************************************************)
(* VolatiQ: the request-serving core of src/api/app.py (input validation,  *)
(* scaling, inference, explanation, health), modelled as a state machine,  *)
(* and the parts of the repository around it.  The specifications are:     *)
(*   Spec             one request at a time, every route of the API        *)
(*   SpecThreads      concurrent /predict requests                         *)
(*   SpecTrain        the feature and target pipeline of model/train.py    *)
(*   SpecExplain      repeated explanation runs                            *)
(*   SpecConfig       Config.validate() of config.py                       *)
(*   SpecRunLocal     run_local.py and the processes it spawns             *)
(*   SpecDeployLocal  deploy_local.py and the processes it spawns          *)
(*   SpecDashboard    the callbacks of dashboard/app.py                    *)
(*                                                                         *)
(* Numbers are integers: a finite JSON number is an integer of 0..MaxVal,  *)
(* NaN and the infinities are cells of their own kind.  The fitted scaler  *)
(* and the trained network are opaque artifacts; they are represented by   *)
(* fixed integer parameters (ScalerMean, ModelWeights, ModelBias).         *)
(* Rate limiting (flask_limiter) and JSON parsing errors are answered by   *)
(* Flask before a handler runs and are not part of the model.              *)
(***************************************************************************)
EXTENDS Integers, Sequences, FiniteSets, TLC

VARIABLES
    FLASK_ENV,      \* config.FLASK_ENV of the process
    config_errors,  \* the module global `config_errors` of api/app.py
    np_ragged,      \* what np.array does with a ragged list in the installed numpy
    phase,          \* "serving": module import completed; "aborted": it raised
    model,          \* the module global `model` of api/app.py
    scaler,         \* the module global `scaler` of api/app.py
    pc,             \* "idle", "received" (a request is dispatched), "responded"
    req,            \* the request being handled
    resp,           \* the response of the handler
    calls,          \* the scaler/model/explainer invocations made for the request
    health_seen,    \* the status of the latest /health response, "" before the first
    threads,        \* the request threads of the threaded server, each with its locals
    prices,         \* the Close column of the frame given to the training pipeline
    revised,        \* the same history with one bar republished
    horizon,        \* the horizon argument of the pipeline functions
    called,         \* the pipeline function that was called, "" before the call
    returned,       \* what it returned for prices and for revised
    np_random,      \* the state of numpy's global generator in the API process
    runs,           \* the explanation runs made so far, each with what it returned
    config,         \* a Config instance whose validate() is called
    disk,           \* the paths that exist on disk when it is called
    validated,      \* what validate() returned, NotCalled before the call
    script_pc,      \* where run_local.py / deploy_local.py stands, "" when not run
    api_process,    \* the variable api_process of the script: None or the child
    dashboard_process, \* the variable dashboard_process of the script
    children,       \* the state of each child process the script may spawn
    polls,          \* the health polls of start_api that have failed
    external_api,   \* an API the script did not spawn answers on the port
    upload_data,    \* dashboard: the contents of the upload component, the parsed CSV
    feature_dropdown, \* dashboard: the value of the feature dropdown, in selection order
    edits,          \* dashboard: the selections and deselections made in the dropdown
    last_pred_features, \* dashboard: the data of the store 'last-pred-features'
    n_clicks_list,  \* dashboard: n_clicks of the Explain buttons on the page, by index
    clicked,        \* dashboard: the index of the Explain button clicked last, 0 if none
    posted          \* dashboard: the request the latest callback sent to the API

apiVars == <<FLASK_ENV, config_errors, np_ragged, phase, model, scaler, pc, req, resp, calls, health_seen>>
threadVars == <<threads>>
trainVars == <<prices, revised, horizon, called, returned>>
explainVars == <<np_random, runs>>
configVars == <<config, disk, validated>>
scriptVars == <<script_pc, api_process, dashboard_process, children, polls, external_api>>
dashVars == <<upload_data, feature_dropdown, edits, last_pred_features, n_clicks_list,
             clicked, posted>>
otherVars == <<explainVars, configVars, scriptVars, dashVars>>
vars == <<apiVars, threadVars, trainVars, otherVars>>

(***************************************************************************)
(* Program constants                                                       *)
(***************************************************************************)
MAX_PREDICTION_BATCH_SIZE == 1000
expected_features == 5
EXPLAIN_MAX_SAMPLES == 10
nsamples == 100

(***************************************************************************)
(* Bounds of the model                                                     *)
(***************************************************************************)
MaxVal == 2          \* finite cell values are 0..MaxVal
MaxRowLen == 6       \* rows have 0 or expected_features-1 .. MaxRowLen cells
MaxOver == 1         \* batches have up to limit + MaxOver rows

(***************************************************************************)
(* JSON values                                                             *)
(***************************************************************************)
Cell(k, v) == [k |-> k, v |-> v]
Num(v) == Cell("num", v)
\* True is 1.0 once numpy mixes it with numbers; NaN/Infinity are accepted by json.loads
SpecialCells == {Cell("nan", 0), Cell("inf", 0), Cell("str", 0), Cell("null", 0), Cell("bool", 1)}
FirstCells == {Num(1)} \cup SpecialCells

\* a row of `len` cells: the first cell is c, the others are finite numbers
MkRow(len, c) == [j \in 1..len |-> IF j = 1 THEN c ELSE Num(j % (MaxVal + 1))]

RowLens == {0} \cup ((expected_features - 1)..MaxRowLen)
RowPool == {MkRow(len, c) : len \in RowLens, c \in FirstCells}
\* the rows that may stand at the end of a batch of other rows
OddPool == {MkRow(expected_features, Num(MaxVal)), MkRow(expected_features - 1, Num(MaxVal)),
            MkRow(expected_features, Cell("nan", 0))}

NoRow == <<>>
FScalar == [kind |-> "scalar", n |-> 0, base |-> NoRow, odd |-> NoRow, oddAt |-> 0]
FFlat(row) == [kind |-> "flat", n |-> Len(row), base |-> row, odd |-> NoRow, oddAt |-> 0]
FDeep(n) == [kind |-> "deep", n |-> n, base |-> NoRow, odd |-> NoRow, oddAt |-> 0]
FBatch(n, base) == [kind |-> "batch", n |-> n, base |-> base, odd |-> NoRow, oddAt |-> 0]
FBatchOdd(n, base, odd) == [kind |-> "batch", n |-> n, base |-> base, odd |-> odd, oddAt |-> n]

\* the rows of a list of lists, in order
Rows(f) == [i \in 1..f.n |-> IF i = f.oddAt THEN f.odd ELSE f.base]


(***************************************************************************)
(* numpy                                                                   *)
(***************************************************************************)
Arr(shape, dtype, rows) == [raised |-> FALSE, shape |-> shape, dtype |-> dtype, rows |-> rows]
ArrRaised == [raised |-> TRUE, shape |-> <<>>, dtype |-> "object", rows |-> <<>>]
ndim(a) == Len(a.shape)

\* the dtype numpy gives to a list holding cells of these kinds
DType(kinds) ==
    IF "null" \in kinds THEN "object"
    ELSE IF "str" \in kinds THEN "str"
    ELSE IF kinds = {"bool"} THEN "bool"
    ELSE "float"

\* np.array(data['features'])
np_array(f) ==
    LET rows == Rows(f)
        lens == {Len(rows[i]) : i \in 1..f.n}
        kinds == UNION {{rows[i][j].k : j \in 1..Len(rows[i])} : i \in 1..f.n}
    IN  CASE f.kind = "scalar" -> Arr(<<>>, "object", <<>>)
          [] f.kind = "flat" -> Arr(<<f.n>>, DType({f.base[j].k : j \in 1..f.n}), <<>>)
          [] f.kind = "deep" -> Arr(<<f.n, expected_features, 1>>, "float", <<>>)
          [] f.kind = "batch" ->
                IF f.n = 0 THEN Arr(<<0>>, "float", <<>>)
                ELSE IF Cardinality(lens) = 1
                     THEN Arr(<<f.n, Len(rows[1])>>, DType(kinds), rows)
                ELSE IF np_ragged = "raise" THEN ArrRaised
                ELSE Arr(<<f.n>>, "object", <<>>)

\* np.isnan / np.isinf raise TypeError on arrays that are not numeric
ufunc_raises(a) == a.dtype \in {"str", "object"}
any_isnan(a) == \E i \in 1..Len(a.rows) : \E j \in 1..Len(a.rows[i]) : a.rows[i][j].k = "nan"
any_isinf(a) == \E i \in 1..Len(a.rows) : \E j \in 1..Len(a.rows[i]) : a.rows[i][j].k = "inf"

(***************************************************************************)
(* validate_features_input                                                 *)
(***************************************************************************)
Err(msg, arg) == [msg |-> msg, arg |-> arg]
NoError == Err("", 0)
MissingMsg == "Missing features in request"
Not2DMsg == "Features must be a 2D array"
BatchSizeMsg == "Batch size exceeds maximum of"
FeatureCountMsg == "Expected 5 features, got"
NonFiniteMsg == "Features contain NaN or infinite values"
InvalidFormatMsg == "Invalid features format"

Body(kind, has, feat) == [kind |-> kind, has |-> has, feat |-> feat]
FalsyKinds == {"null", "false", "zero", "emptystr", "emptylist", "emptydict"}
\* `in` is defined for str (substring), list (element) and dict (key) only
ContainerKinds == {"str", "list", "dict"}

Result(ok, err, features) == [raised |-> FALSE, is_valid |-> ok, error_msg |-> err, features |-> features]
Rejected(err) == Result(FALSE, err, ArrRaised)
ValidateRaised == [raised |-> TRUE, is_valid |-> FALSE, error_msg |-> NoError, features |-> ArrRaised]

\* variant: the limit itself already counts as exceeded
BatchSizeExceededStrict(rows, limit) == rows >= limit
BatchSizeExceeded(rows, limit) == rows > limit

NonFinite(a) == any_isnan(a) \/ any_isinf(a)

\* lines 54-77: the body of the try block
validate_array(f) ==
    LET features == np_array(f)
    IN  IF features.raised THEN Rejected(Err(InvalidFormatMsg, 0))
        ELSE IF ndim(features) # 2 THEN Rejected(Err(Not2DMsg, 0))
        ELSE IF BatchSizeExceeded(features.shape[1], MAX_PREDICTION_BATCH_SIZE)
             THEN Rejected(Err(BatchSizeMsg, MAX_PREDICTION_BATCH_SIZE))
        ELSE IF features.shape[2] # expected_features
             THEN Rejected(Err(FeatureCountMsg, features.shape[2]))
        ELSE IF ufunc_raises(features) THEN Rejected(Err(InvalidFormatMsg, 0))
        ELSE IF NonFinite(features) THEN Rejected(Err(NonFiniteMsg, 0))
        ELSE Result(TRUE, NoError, features)

validate_features_input(data) ==
    IF data.kind \in FalsyKinds THEN Rejected(Err(MissingMsg, 0))
    ELSE IF data.kind \notin ContainerKinds THEN ValidateRaised
    ELSE IF ~data.has THEN Rejected(Err(MissingMsg, 0))
    ELSE IF data.kind # "dict" THEN Rejected(Err(InvalidFormatMsg, 0))
    ELSE validate_array(data.feat)


(***************************************************************************)
(* The loaded artifacts: a fitted StandardScaler and the trained network   *)
(***************************************************************************)
Unbound == [bound |-> FALSE, dim |-> 0]
Loaded(dim) == [bound |-> TRUE, dim |-> dim]

\* what the files at MODEL_PATH / SCALER_PATH hold: nothing loadable, the artifacts
\* train.py saves, or artifacts fitted on another number of features
ArtifactFiles == {"missing", "trained", "scaler_other_dim", "model_other_dim"}

ScalerMean == <<1, 0, 1, 2, 1>>
ScalerGain == <<1, 2, 1, 1, 3>>
ModelWeights == <<2, 1, 3, 1, 2>>
ModelBias == 1
OutputWeights == <<2, -1>>

\* the float a numeric cell becomes in the array
Value(c) == c.v

\* StandardScaler.transform: per column (x - mean_) / scale_
TransformRow(row) == [j \in 1..Len(row) |-> (Value(row[j]) - ScalerMean[j]) * ScalerGain[j]]
Transform(rows) == [i \in 1..Len(rows) |-> TransformRow(rows[i])]

\* Dense(..., activation='relu')
Relu(x) == IF x > 0 THEN x ELSE 0

\* the kernel of the hidden layer applied to one scaled row
Dense(w, z) ==
    LET sum[j \in 0..Len(z)] == IF j = 0 THEN 0 ELSE w[j] * z[j] + sum[j - 1]
    IN  sum[Len(z)]

\* the network in inference mode: a deterministic function of one scaled row, a
\* hidden relu layer (two units, kernels ModelWeights and its negation) under a
\* linear output unit; it is neither linear nor additive in the features
Predictor(z) ==
    LET a == Dense(ModelWeights, z)
    IN  ModelBias + OutputWeights[1] * Relu(a) + OutputWeights[2] * Relu(0 - a)

\* model.predict: an (n, 1) array, one output row per input row
ModelPredict(Z) == [i \in 1..Len(Z) |-> <<Predictor(Z[i])>>]

\* ndarray.flatten().tolist() of an (n, m) array, row-major
Flatten(Y) ==
    LET m == IF Len(Y) = 0 THEN 0 ELSE Len(Y[1])
    IN  [k \in 1..(Len(Y) * m) |-> Y[((k - 1) \div m) + 1][((k - 1) % m) + 1]]

\* the background of the explainer: one all-zero row in scaled space
ZeroRow == [j \in 1..expected_features |-> 0]

Factorial(n) ==
    LET f[k \in 0..n] == IF k = 0 THEN 1 ELSE k * f[k - 1]
    IN  f[n]

\* the coalition a sample of the explainer stands for: bit k - 1 of b says whether
\* feature k keeps the value of the explained row
Coalition(b, M) == {k \in 1..M : (b \div (2 ^ (k - 1))) % 2 = 1}

\* the synthetic row of a coalition: the row's value for the features in S, the
\* background's for the others
Masked(z, S) == [k \in 1..Len(z) |-> IF k \in S THEN z[k] ELSE ZeroRow[k]]

\* the attribution of a feature read off its own term alone (a variant)
ShapRowOwnTerm(z) ==
    [j \in 1..Len(z) |->
        Factorial(Len(z)) * (Predictor(Masked(z, {j})) - Predictor(ZeroRow))]

\* KernelExplainer.shap_values for one row against the all-zero background: with 5
\* features and nsamples = 100 all 2^5 - 2 = 30 proper coalitions are enumerated, no
\* coalition is sampled and no regularisation is applied, so the constrained weighted
\* regression returns the Shapley values of the row. An attribution is held as
\* M! times its value, which is an integer:
\*   M! * phi[j] = SUM over S not containing j of |S|! (M - |S| - 1)! (f(S + j) - f(S))
\* The singleton output axis of the one-output network is left out.
ShapRow(z) ==
    LET M == Len(z)
        f[b \in 0..(2 ^ M - 1)] == Predictor(Masked(z, Coalition(b, M)))
        gain(j, b) ==
            LET S == Coalition(b, M)
            IN  IF j \in S THEN 0
                ELSE Factorial(Cardinality(S)) * Factorial(M - Cardinality(S) - 1)
                        * (f[b + 2 ^ (j - 1)] - f[b])
        phi[j \in 1..M, b \in 0..(2 ^ M)] ==
            IF b = 2 ^ M THEN 0 ELSE gain(j, b) + phi[j, b + 1]
    IN  [j \in 1..M |-> phi[j, 0]]
ShapValues(Z) == [i \in 1..Len(Z) |-> ShapRow(Z[i])]

(***************************************************************************)
(* Responses                                                               *)
(***************************************************************************)
EmptyResp ==
    [status |-> 0, keys |-> {}, error |-> NoError, predictions |-> <<>>,
     num_predictions |-> 0, shap_values |-> <<>>, health |-> "",
     model_loaded |-> FALSE, prediction_working |-> FALSE]

PredictionFailedMsg == "Internal server error during prediction"
ExplanationFailedMsg == "Internal server error during explanation"
ExplainLimitMsg == "Maximum 10 samples allowed for explanations"
MetricsFailedMsg == "Failed to get metrics"
InternalErrorMsg == "Internal server error"

\* jsonify({'error': error_msg}), 400
BadRequest(err) == [EmptyResp EXCEPT !.status = 400, !.keys = {"error"}, !.error = err]
\* jsonify({'error': ..., 'timestamp': ...}), 500
ServerError(msg) ==
    [EmptyResp EXCEPT !.status = 500, !.keys = {"error", "timestamp"}, !.error = Err(msg, 0)]
\* an exception leaving the view function: @app.errorhandler(500)
internal_error ==
    [EmptyResp EXCEPT !.status = 500, !.keys = {"error"}, !.error = Err(InternalErrorMsg, 0)]

Call(fn, rows) == [fn |-> fn, rows |-> rows]


(***************************************************************************)
(* Requests                                                                *)
(***************************************************************************)
NullBody == Body("null", FALSE, FScalar)
NoReq == [route |-> "", data |-> NullBody]
Request(route, data) == [route |-> route, data |-> data]

BatchSizes ==
    (0..2) \cup (EXPLAIN_MAX_SAMPLES..(EXPLAIN_MAX_SAMPLES + MaxOver))
           \cup (MAX_PREDICTION_BATCH_SIZE..(MAX_PREDICTION_BATCH_SIZE + MaxOver))

FeatureValues ==
    {FScalar} \cup {FFlat(MkRow(expected_features, Num(1)))} \cup {FDeep(1)}
    \cup {FBatch(n, base) : n \in BatchSizes, base \in RowPool}
    \cup {FBatchOdd(n, base, odd) : n \in BatchSizes \ {0}, base \in RowPool, odd \in OddPool}

\* request.get_json(): any JSON value
Bodies ==
    {Body(k, FALSE, FScalar) : k \in FalsyKinds \cup {"number", "true"}}
    \cup {Body(k, h, FScalar) : k \in {"str", "list"}, h \in BOOLEAN}
    \cup {Body("dict", FALSE, FScalar)}
    \cup {Body("dict", TRUE, f) : f \in FeatureValues}

(***************************************************************************)
(* Handlers                                                                *)
(***************************************************************************)
Outcome(r, c) == [resp |-> r, calls |-> c]

\* sklearn and keras check the number of columns against what they were fitted on
\* variant: a scaler that accepts any number of columns
transform_never_raises(a) == FALSE
transform_raises(a) == scaler.dim # a.shape[2]
predict_raises(Z) == Len(Z) > 0 /\ model.dim # Len(Z[1])

\* variant: the predictions in reverse row order
PredictOkReversed(preds) ==
    [EmptyResp EXCEPT !.status = 200,
        !.keys = {"predictions", "timestamp", "processing_time_seconds",
                  "model_version", "num_predictions"},
        !.predictions = [k \in 1..Len(preds) |-> preds[Len(preds) + 1 - k]],
        !.num_predictions = Len(preds)]
PredictOk(preds) ==
    [EmptyResp EXCEPT !.status = 200,
        !.keys = {"predictions", "timestamp", "processing_time_seconds",
                  "model_version", "num_predictions"},
        !.predictions = preds, !.num_predictions = Len(preds)]

\* predict(), lines 174-199: the try block and its handler
predict_try(features) ==
    LET n == features.shape[1]
        features_scaled == Transform(features.rows)
        preds == Flatten(ModelPredict(features_scaled))
    IN  IF ~scaler.bound
        THEN Outcome(ServerError(PredictionFailedMsg), <<>>)
        ELSE IF transform_raises(features)
        THEN Outcome(ServerError(PredictionFailedMsg), <<Call("scaler.transform", n)>>)
        ELSE IF predict_raises(features_scaled)
        THEN Outcome(ServerError(PredictionFailedMsg),
                     <<Call("scaler.transform", n), Call("model.predict", n)>>)
        ELSE Outcome(PredictOk(preds),
                     <<Call("scaler.transform", n), Call("model.predict", n)>>)

\* predict(), lines 165-199
predict(data) ==
    LET v == validate_features_input(data)
    IN  IF v.raised THEN Outcome(internal_error, <<>>)
        ELSE IF ~v.is_valid THEN Outcome(BadRequest(v.error_msg), <<>>)
        ELSE predict_try(v.features)

ExplainOk(preds, shap_vals) ==
    [EmptyResp EXCEPT !.status = 200,
        !.keys = {"predictions", "shap_values", "feature_names", "timestamp",
                  "processing_time_seconds"},
        !.predictions = preds, !.shap_values = shap_vals]

\* explain(), lines 222-253; shap_fails: the sampling/regression of the library raised
explain_try(features, shap_fails) ==
    LET n == features.shape[1]
        features_scaled == Transform(features.rows)
        t == <<Call("scaler.transform", n)>>
        e == t \o <<Call("model.predict", 1)>>
        s == e \o <<Call("explainer.shap_values", n)>>
    IN  IF ~scaler.bound
        THEN Outcome(ServerError(ExplanationFailedMsg), <<>>)
        ELSE IF transform_raises(features)
        THEN Outcome(ServerError(ExplanationFailedMsg), t)
        ELSE IF predict_raises(<<ZeroRow>>)
        THEN Outcome(ServerError(ExplanationFailedMsg), e)
        ELSE IF shap_fails
        THEN Outcome(ServerError(ExplanationFailedMsg), s)
        ELSE Outcome(ExplainOk(Flatten(ModelPredict(features_scaled)),
                               ShapValues(features_scaled)),
                     s \o <<Call("model.predict", n)>>)

\* variant: one row more than the limit is let through
ExplainLimitExceededLoose(rows) == rows > EXPLAIN_MAX_SAMPLES + 1
ExplainLimitExceeded(rows) == rows > EXPLAIN_MAX_SAMPLES

\* variant: explain() without the check of line 219
explain_without_limit(data, shap_fails) ==
    LET v == validate_features_input(data)
    IN  IF v.raised THEN Outcome(internal_error, <<>>)
        ELSE IF ~v.is_valid THEN Outcome(BadRequest(v.error_msg), <<>>)
        ELSE explain_try(v.features, shap_fails)

\* explain(), lines 209-253
explain(data, shap_fails) ==
    LET v == validate_features_input(data)
    IN  IF v.raised THEN Outcome(internal_error, <<>>)
        ELSE IF ~v.is_valid THEN Outcome(BadRequest(v.error_msg), <<>>)
        ELSE IF ExplainLimitExceeded(v.features.shape[1])
        THEN Outcome(BadRequest(Err(ExplainLimitMsg, 0)), <<>>)
        ELSE explain_try(v.features, shap_fails)

\* the probe of health_check, line 131
test_features == Arr(<<1, expected_features>>, "float", <<MkRow(expected_features, Num(1))>>)

HealthBody(model_status, prediction_status, health_status) ==
    [EmptyResp EXCEPT !.status = IF health_status THEN 200 ELSE 503,
        !.keys = {"status", "timestamp", "model_loaded", "prediction_working", "version"},
        !.health = IF health_status THEN "healthy" ELSE "unhealthy",
        !.model_loaded = model_status, !.prediction_working = prediction_status]

\* variant: the status without the probe
health_status_ignoring_probe(model_status, prediction_status) == model_status
health_status(model_status, prediction_status) == model_status /\ prediction_status

\* health_check(), lines 126-155
health_check ==
    LET t == <<Call("scaler.transform", 1)>>
        prediction_status ==
            ~transform_raises(test_features)
            /\ ~predict_raises(Transform(test_features.rows))
    IN  IF ~model.bound \/ ~scaler.bound
        THEN \* NameError at line 128, caught at line 149
             Outcome([EmptyResp EXCEPT !.status = 503,
                         !.keys = {"status", "timestamp", "error"},
                         !.health = "unhealthy",
                         !.error = Err("name 'model' is not defined", 0)], <<>>)
        ELSE Outcome(HealthBody(TRUE, prediction_status,
                                health_status(TRUE, prediction_status)),
                     IF transform_raises(test_features) THEN t
                     ELSE t \o <<Call("model.predict", 1)>>)

\* get_metrics(), lines 258-285
get_metrics ==
    IF ~model.bound \/ ~scaler.bound
    THEN Outcome([EmptyResp EXCEPT !.status = 500, !.keys = {"error"},
                     !.error = Err(MetricsFailedMsg, 0)], <<>>)
    ELSE Outcome([EmptyResp EXCEPT !.status = 200,
                     !.keys = {"model_info", "system_info", "timestamp"}], <<>>)

\* api_info(), lines 80-98
api_info ==
    Outcome([EmptyResp EXCEPT !.status = 200,
                !.keys = {"message", "version", "status", "endpoints", "rate_limits"}], <<>>)


(***************************************************************************)
(* Startup: the module body of api/app.py                                  *)
(***************************************************************************)
\* load_model_and_scaler(): both artifacts, or the exception of the first failure
load_model_and_scaler(files) ==
    CASE files = "missing" -> [raised |-> TRUE, model |-> Unbound, scaler |-> Unbound]
      [] files = "trained" ->
            [raised |-> FALSE, model |-> Loaded(expected_features),
             scaler |-> Loaded(expected_features)]
      [] files = "scaler_other_dim" ->
            [raised |-> FALSE, model |-> Loaded(expected_features),
             scaler |-> Loaded(expected_features - 1)]
      [] files = "model_other_dim" ->
            [raised |-> FALSE, model |-> Loaded(expected_features - 1),
             scaler |-> Loaded(expected_features)]

is_production == FLASK_ENV = "production"

(***************************************************************************)
(* config.py: the Config dataclass and its validate()                      *)
(***************************************************************************)
DevSecretKey == "dev-key-change-in-production"
DevJwtSecretKey == "jwt-secret-change-in-production"
DefaultModelPath == "model/saved_model/volatility_model.keras"
DefaultScalerPath == "model/saved_model/scaler.save"

Config(env, secret, jwt, model_path, scaler_path) ==
    [FLASK_ENV |-> env, SECRET_KEY |-> secret, JWT_SECRET_KEY |-> jwt,
     MODEL_PATH |-> model_path, SCALER_PATH |-> scaler_path]

\* the property read as "not development" (a variant)
config_is_not_development(c) == c.FLASK_ENV # "development"

\* Config.is_production
config_is_production(c) == c.FLASK_ENV = "production"

\* os.path.exists
path_exists(on_disk, path) == path \in on_disk

ConfigError(msg, path) == [msg |-> msg, path |-> path]
SecretKeyMsg == "SECRET_KEY must be changed in production"
JwtSecretKeyMsg == "JWT_SECRET_KEY must be changed in production"
ModelNotFoundMsg == "Model file not found:"
ScalerNotFoundMsg == "Scaler file not found:"

\* Config.validate(): the errors in the order they are appended
validate(c, on_disk) ==
    IF config_is_production(c)
    THEN (IF c.SECRET_KEY = DevSecretKey THEN <<ConfigError(SecretKeyMsg, "")>> ELSE <<>>)
         \o (IF c.JWT_SECRET_KEY = DevJwtSecretKey
             THEN <<ConfigError(JwtSecretKeyMsg, "")>> ELSE <<>>)
         \o (IF c.MODEL_PATH = "" \/ ~path_exists(on_disk, c.MODEL_PATH)
             THEN <<ConfigError(ModelNotFoundMsg, c.MODEL_PATH)>> ELSE <<>>)
         \o (IF c.SCALER_PATH = "" \/ ~path_exists(on_disk, c.SCALER_PATH)
             THEN <<ConfigError(ScalerNotFoundMsg, c.SCALER_PATH)>> ELSE <<>>)
    ELSE <<>>

\* the settings a process may be started with; the artifact paths are the defaults
Secrets == {DevSecretKey, "changed"}
JwtSecrets == {DevJwtSecretKey, "changed"}
StartupConfigs ==
    {Config(env, secret, jwt, DefaultModelPath, DefaultScalerPath) :
        env \in {"development", "production"}, secret \in Secrets, jwt \in JwtSecrets}
Disks == SUBSET {DefaultModelPath, DefaultScalerPath}
\* what the artifact files may hold: both must exist to be loadable; files that
\* exist may still hold nothing loadable
FilesOn(on_disk) ==
    IF {DefaultModelPath, DefaultScalerPath} \subseteq on_disk
    THEN ArtifactFiles ELSE {"missing"}

\* a configuration that passes validation in every mode, with both files on disk
ChangedConfig(env) == Config(env, "changed", "changed", DefaultModelPath, DefaultScalerPath)
BothFiles == {DefaultModelPath, DefaultScalerPath}

\* the import raising for a failed load only, configuration errors being logged (a
\* variant)
import_raises_on_load_only(c, errors, load_raised) ==
    config_is_production(c) /\ load_raised

\* lines 43-47 and 119-121: the exceptions the module body lets escape
import_raises(c, errors, load_raised) ==
    config_is_production(c) /\ (errors # <<>> \/ load_raised)

\* lines 41-47: config_errors = config.validate() and, in production, RuntimeError
\* when there is any; lines 116-121: `model, scaler = ...` binds both names or, on an
\* exception, neither, and production re-raises. After an exception at line 47 the
\* load is never reached.
Startup(c, on_disk, files, ragged) ==
    LET errors == validate(c, on_disk)
        reached == ~(config_is_production(c) /\ errors # <<>>)
        l == IF reached THEN load_model_and_scaler(files)
             ELSE [raised |-> FALSE, model |-> Unbound, scaler |-> Unbound]
    IN  /\ FLASK_ENV = c.FLASK_ENV
        /\ config_errors = errors
        /\ np_ragged = ragged
        /\ model = l.model
        /\ scaler = l.scaler
        /\ phase = IF import_raises(c, errors, l.raised) THEN "aborted" ELSE "serving"
        /\ pc = "idle"
        /\ req = NoReq
        /\ resp = EmptyResp
        /\ calls = <<>>
        /\ health_seen = ""

\* the state of the parts of the repository that a specification leaves aside
NoThreads == threads = <<>>
NoTraining ==
    /\ prices = <<>>
    /\ revised = <<>>
    /\ horizon = 0
    /\ called = ""
    /\ returned = <<>>

NoExplaining ==
    /\ np_random = 0
    /\ runs = <<>>
NotCalled == <<ConfigError("validate() was not called", "")>>
NoConfig == Config("", "", "", "", "")
NoValidating ==
    /\ config = NoConfig
    /\ disk = {}
    /\ validated = NotCalled
\* a child process of a script: not spawned yet, starting up, answering on its
\* port, or exited; with the signals the script has sent it
Child(state, sent) == [state |-> state, sent |-> sent]
ChildNames == {"api", "dashboard"}
None == "None"
NoScript ==
    /\ script_pc = ""
    /\ api_process = None
    /\ dashboard_process = None
    /\ children = [c \in ChildNames |-> Child("unspawned", {})]
    /\ polls = 0
    /\ external_api = FALSE
\* a store or component property that holds None, or rows
NoData == [none |-> TRUE, rows |-> <<>>]
Data(rows) == [none |-> FALSE, rows |-> rows]
\* a request of the dashboard to the API
Post(route, rows) == [route |-> route, rows |-> rows]
NoPost == Post("", <<>>)
NoDashboard ==
    /\ upload_data = NoData
    /\ feature_dropdown = <<>>
    /\ edits = 0
    /\ last_pred_features = NoData
    /\ n_clicks_list = <<>>
    /\ clicked = 0
    /\ posted = NoPost
OthersIdle == NoExplaining /\ NoValidating /\ NoScript /\ NoDashboard

Init ==
    \E c \in StartupConfigs, on_disk \in Disks, ragged \in {"raise", "object"} :
       \E files \in FilesOn(on_disk) :
          Startup(c, on_disk, files, ragged) /\ NoThreads /\ NoTraining /\ OthersIdle

(***************************************************************************)
(* Serving                                                                 *)
(***************************************************************************)
Routes == {"/", "/health", "/predict", "/explain", "/metrics"}
PostRoutes == {"/predict", "/explain"}

\* Flask dispatches a request to the view function of its route
Receive ==
    /\ phase = "serving"
    /\ pc = "idle"
    /\ \E route \in Routes :
         \E data \in (IF route \in PostRoutes THEN Bodies ELSE {NullBody}) :
            req' = Request(route, data)
    /\ pc' = "received"
    /\ UNCHANGED <<FLASK_ENV, config_errors, np_ragged, phase, model, scaler, resp, calls, health_seen>>
    /\ UNCHANGED <<threadVars, trainVars, otherVars>>

\* variant: a handler that rebinds the global model
RespondRebinding(out) ==
    /\ resp' = out.resp
    /\ calls' = out.calls
    /\ pc' = "responded"
    /\ health_seen' = IF req.route = "/health" THEN out.resp.health ELSE health_seen
    /\ model' = IF req.route = "/predict" THEN Unbound ELSE model
    /\ UNCHANGED <<FLASK_ENV, config_errors, np_ragged, phase, scaler, req>>
    /\ UNCHANGED <<threadVars, trainVars, otherVars>>

\* the handler returns; none of them has a `global` statement or assigns model/scaler
Respond(out) ==
    /\ resp' = out.resp
    /\ calls' = out.calls
    /\ pc' = "responded"
    /\ health_seen' = IF req.route = "/health" THEN out.resp.health ELSE health_seen
    /\ UNCHANGED <<FLASK_ENV, config_errors, np_ragged, phase, model, scaler, req>>
    /\ UNCHANGED <<threadVars, trainVars, otherVars>>

ApiInfo == pc = "received" /\ req.route = "/" /\ Respond(api_info)
HealthCheck == pc = "received" /\ req.route = "/health" /\ Respond(health_check)
Predict == pc = "received" /\ req.route = "/predict" /\ Respond(predict(req.data))
Explain ==
    /\ pc = "received"
    /\ req.route = "/explain"
    /\ \E shap_fails \in BOOLEAN : Respond(explain(req.data, shap_fails))
GetMetrics == pc = "received" /\ req.route = "/metrics" /\ Respond(get_metrics)

\* the response is sent; the worker takes the next request
Complete ==
    /\ pc = "responded"
    /\ pc' = "idle"
    /\ req' = NoReq
    /\ resp' = EmptyResp
    /\ calls' = <<>>
    /\ UNCHANGED <<FLASK_ENV, config_errors, np_ragged, phase, model, scaler, health_seen>>
    /\ UNCHANGED <<threadVars, trainVars, otherVars>>

Next == Receive \/ ApiInfo \/ HealthCheck \/ Predict \/ Explain \/ GetMetrics \/ Complete

Spec == Init /\ [][Next]_vars


(***************************************************************************)
(* Properties of a request, stated on the JSON payload itself              *)
(***************************************************************************)
Responded(routes) == pc = "responded" /\ req.route \in routes

HasFeatures(data) == data.kind = "dict" /\ data.has
RowAt(f, i) == IF i = f.oddAt THEN f.odd ELSE f.base
NumericKinds == {"num", "bool", "nan", "inf"}

ListOfRows(f) == f.kind = "batch" /\ f.n >= 1
Rank2(f) == ListOfRows(f) /\ \A i \in 1..f.n : Len(RowAt(f, i)) = Len(RowAt(f, 1))
AllNumeric(f) ==
    ListOfRows(f) /\ \A i \in 1..f.n : \A j \in 1..Len(RowAt(f, i)) : RowAt(f, i)[j].k \in NumericKinds
WrongRowLength(f) == ListOfRows(f) /\ \E i \in 1..f.n : Len(RowAt(f, i)) # expected_features
HasNonFinite(f) ==
    ListOfRows(f) /\ \E i \in 1..f.n : \E j \in 1..Len(RowAt(f, i)) : RowAt(f, i)[j].k \in {"nan", "inf"}
TooManyRows(f, limit) == f.kind = "batch" /\ f.n > limit

ValidBatch(f, limit) ==
    /\ Rank2(f) /\ AllNumeric(f)
    /\ ~WrongRowLength(f)
    /\ ~TooManyRows(f, limit)
    /\ ~HasNonFinite(f)

ShapeReasons == {Not2DMsg, InvalidFormatMsg}
BatchSizeReasons == {BatchSizeMsg, ExplainLimitMsg}

\* the reasons of the rules a 'features' value violates
ViolationReasons(f, limit) ==
    (IF ~(Rank2(f) /\ AllNumeric(f)) THEN ShapeReasons ELSE {})
    \cup (IF TooManyRows(f, limit) THEN {BatchSizeMsg} ELSE {})
    \cup (IF WrongRowLength(f) THEN {FeatureCountMsg} ELSE {})
    \cup (IF HasNonFinite(f) THEN {NonFiniteMsg} ELSE {})

\* the reasons of the lowest-numbered rule a payload violates, in the order
\* missing field, shape, row count, row length, non-finite entry
FirstViolationReasons(data, limit) ==
    IF ~HasFeatures(data) THEN {MissingMsg}
    ELSE IF ~(Rank2(data.feat) /\ AllNumeric(data.feat)) THEN ShapeReasons
    ELSE IF TooManyRows(data.feat, limit) THEN {BatchSizeMsg}
    ELSE IF WrongRowLength(data.feat) THEN {FeatureCountMsg}
    ELSE IF HasNonFinite(data.feat) THEN {NonFiniteMsg}
    ELSE {}

RowLimit(route) ==
    IF route = "/explain" /\ EXPLAIN_MAX_SAMPLES < MAX_PREDICTION_BATCH_SIZE
    THEN EXPLAIN_MAX_SAMPLES ELSE MAX_PREDICTION_BATCH_SIZE

\* the payload of the request passes every validation rule of its route
PayloadValid == HasFeatures(req.data) /\ ValidBatch(req.data.feat, RowLimit(req.route))

Invoked(fn) == \E k \in 1..Len(calls) : calls[k].fn = fn

(***************************************************************************)
(* Claims                                                                  *)
(***************************************************************************)

\* C1: validate_features_input returns is_valid = True exactly when the 'features'
\* value is a rank-2 numeric array (one numpy gives a bool, int or float dtype) with rows of length 5, at most
\* MAX_PREDICTION_BATCH_SIZE rows and only finite entries; a 'features' value that
\* is rejected is rejected with the reason of a rule it violates; 1000 valid rows
\* are accepted and 1001 valid rows are rejected with the batch-size reason.
C1_ValidateAcceptsExactlyValidBatches ==
    Responded(PostRoutes) =>
        LET v == validate_features_input(req.data)
            f == req.data.feat
        IN  /\ (~v.raised /\ v.is_valid)
                <=> (HasFeatures(req.data) /\ ValidBatch(f, MAX_PREDICTION_BATCH_SIZE))
            /\ (HasFeatures(req.data) /\ ~ValidBatch(f, MAX_PREDICTION_BATCH_SIZE))
                => /\ ~v.raised /\ ~v.is_valid
                   /\ v.error_msg.msg \in ViolationReasons(f, MAX_PREDICTION_BATCH_SIZE)
            /\ (HasFeatures(req.data) /\ Rank2(f) /\ AllNumeric(f) /\ ~WrongRowLength(f)
                    /\ ~HasNonFinite(f) /\ f.n = MAX_PREDICTION_BATCH_SIZE + 1)
                => v.error_msg = Err(BatchSizeMsg, MAX_PREDICTION_BATCH_SIZE)

C1_Witness ==
    /\ Responded({"/predict"})
    /\ HasFeatures(req.data)
    /\ req.data.feat.n = MAX_PREDICTION_BATCH_SIZE
    /\ ValidBatch(req.data.feat, MAX_PREDICTION_BATCH_SIZE)
    /\ resp.status = 200

\* C2 (as claimed): for a payload that violates several rules the returned reason
\* is that of the lowest-numbered violated rule in the order missing field, not a
\* rank-2 numeric array, row count, row length, non-finite entry.
C2_ReasonOfLowestViolatedRule ==
    Responded(PostRoutes) =>
        LET v == validate_features_input(req.data)
            first == FirstViolationReasons(req.data, MAX_PREDICTION_BATCH_SIZE)
        IN  (HasFeatures(req.data) /\ first # {})
                => (~v.raised /\ ~v.is_valid /\ v.error_msg.msg \in first)


\* C3 (as claimed): a POST /explain batch with more than 10 rows is rejected with
\* the batch-size reason even when its rows also have length != 5 or contain
\* NaN/infinite entries.
C3_ExplainBatchSizeBeforeRowRules ==
    (Responded({"/explain"}) /\ HasFeatures(req.data) /\ Rank2(req.data.feat)
        /\ AllNumeric(req.data.feat) /\ req.data.feat.n > EXPLAIN_MAX_SAMPLES)
    => (resp.status = 400 /\ resp.error.msg \in BatchSizeReasons)

\* the reason /explain gives for a rank-2 batch of more than 10 rows when the
\* 10-row rule comes after the whole inference validation
ExplainOversizeReason(f) ==
    IF TooManyRows(f, MAX_PREDICTION_BATCH_SIZE) THEN BatchSizeMsg
    ELSE IF WrongRowLength(f) THEN FeatureCountMsg
    ELSE IF ~AllNumeric(f) THEN InvalidFormatMsg
    ELSE IF HasNonFinite(f) THEN NonFiniteMsg
    ELSE ExplainLimitMsg

\* C3 (amended): for /explain the 10-row rule is applied last, after the inference
\* validation with its maximum of MAX_PREDICTION_BATCH_SIZE rows: a rank-2 batch of
\* more than 10 rows is always rejected with HTTP 400, with the reason of the first
\* inference rule it violates (row count over the inference maximum, row length,
\* non-numeric or non-finite entry) and with the 10-sample reason only when it
\* violates none of them.
C3_ExplainLimitAppliedLast ==
    (Responded({"/explain"}) /\ HasFeatures(req.data) /\ Rank2(req.data.feat)
        /\ req.data.feat.n > EXPLAIN_MAX_SAMPLES)
    => /\ resp.status = 400
       /\ resp.error.msg = ExplainOversizeReason(req.data.feat)
       /\ calls = <<>>

C3_Witness ==
    /\ Responded({"/explain"})
    /\ HasFeatures(req.data) /\ Rank2(req.data.feat)
    /\ req.data.feat.n = EXPLAIN_MAX_SAMPLES + 1
    /\ HasNonFinite(req.data.feat)
    /\ resp.status = 400
    /\ resp.error.msg = NonFiniteMsg

\* C4: a /explain batch that passes the inference validation is accepted (it reaches
\* the scaler, or fails only because no scaler is loaded) when it has at most 10
\* rows and is rejected with HTTP 400 'Maximum 10 samples' when it has 11 or more;
\* /explain never invokes scaler.transform or the explainer on more than 10 rows.
C4_ExplainAtMostTenRows ==
    Responded({"/explain"}) =>
        /\ (HasFeatures(req.data) /\ ValidBatch(req.data.feat, MAX_PREDICTION_BATCH_SIZE))
            => IF req.data.feat.n <= EXPLAIN_MAX_SAMPLES
               THEN /\ resp.status \in {200, 500}
                    /\ scaler.bound => Invoked("scaler.transform")
                    /\ resp.status = 200 => Invoked("explainer.shap_values")
               ELSE /\ resp.status = 400
                    /\ resp.error = Err(ExplainLimitMsg, 0)
        /\ \A k \in 1..Len(calls) :
              calls[k].fn \in {"scaler.transform", "explainer.shap_values"}
                  => calls[k].rows <= EXPLAIN_MAX_SAMPLES

C4_Witness ==
    /\ Responded({"/explain"})
    /\ HasFeatures(req.data)
    /\ ValidBatch(req.data.feat, MAX_PREDICTION_BATCH_SIZE)
    /\ req.data.feat.n = EXPLAIN_MAX_SAMPLES
    /\ resp.status = 200
    /\ Call("explainer.shap_values", EXPLAIN_MAX_SAMPLES) \in {calls[k] : k \in 1..Len(calls)}

\* C5 (as claimed): a /predict or /explain request whose payload fails validation
\* (missing field, wrong shape, too many rows, wrong feature count, NaN/infinite
\* entry) is answered with HTTP 400 and an 'error' message, and no scaler, model or
\* explainer call is made for it.
C5_InvalidPayloadIs400 ==
    (Responded(PostRoutes) /\ ~PayloadValid)
    => (resp.status = 400 /\ "error" \in resp.keys /\ calls = <<>>)

\* the (status, error) pairs the handlers give when transform, predict or the
\* explainer raises for one request
ComputationFailureResponses ==
    {<<500, PredictionFailedMsg>>, <<500, ExplanationFailedMsg>>}

\* C6 (as claimed): when the model or the scaler was not loaded at startup, every
\* /predict and /explain request fails with a classification that is distinguishable
\* from the response of a per-request computation failure.
C6_NotLoadedIsServiceUnavailable ==
    (Responded(PostRoutes) /\ (~model.bound \/ ~scaler.bound))
    => /\ resp.status # 200
       /\ <<resp.status, resp.error.msg>> \notin ComputationFailureResponses


\* the explainer raised: its call is the last one made for the request
ShapRaised ==
    req.route = "/explain" /\ calls # <<>> /\ calls[Len(calls)].fn = "explainer.shap_values"

\* transform, predict or the explainer raised for the request (an unbound name,
\* a dimensionality mismatch with the loaded artifacts, or a failure in the library)
ComputationRaised ==
    \/ ~scaler.bound \/ ~model.bound
    \/ scaler.dim # expected_features
    \/ model.dim # expected_features
    \/ ShapRaised

\* C7: if scaler.transform, model.predict or the explainer raises while a validated
\* batch is processed, the response is an HTTP 500 error object without
\* 'predictions' and without 'shap_values'; a response that carries results carries
\* them for every row of the batch.
C7_ComputationFailureIsAtomic ==
    (Responded(PostRoutes) /\ PayloadValid) =>
        IF ComputationRaised
        THEN /\ resp.status = 500
             /\ resp.keys = {"error", "timestamp"}
             /\ resp.predictions = <<>>
             /\ resp.shap_values = <<>>
        ELSE /\ resp.status = 200
             /\ Len(resp.predictions) = req.data.feat.n
             /\ req.route = "/explain" => Len(resp.shap_values) = req.data.feat.n

C7_Witness ==
    /\ Responded({"/predict"})
    /\ PayloadValid
    /\ req.data.feat.n > 1
    /\ scaler.bound /\ scaler.dim # expected_features
    /\ Invoked("scaler.transform")
    /\ resp.status = 500

\* C8: a successful /predict response for a validated batch of n rows holds exactly
\* n predictions (num_predictions = n), the i-th being the predictor's output for
\* the scaled i-th input row.
C8_OnePredictionPerRowInOrder ==
    (Responded({"/predict"}) /\ resp.status = 200) =>
        /\ PayloadValid
        /\ resp.num_predictions = req.data.feat.n
        /\ Len(resp.predictions) = req.data.feat.n
        /\ \A i \in 1..req.data.feat.n :
              resp.predictions[i] = Predictor(TransformRow(RowAt(req.data.feat, i)))

C8_Witness ==
    /\ Responded({"/predict"})
    /\ resp.status = 200
    /\ req.data.feat.n > 1
    /\ req.data.feat.oddAt = req.data.feat.n
    /\ resp.predictions[1] # resp.predictions[req.data.feat.n]

\* the probe [0.01, 0.02, 100.0, 101.0, 50.0] has five columns: it is transformed
\* and predicted without raising exactly by artifacts fitted on five features
ProbeSucceeds == scaler.dim = expected_features /\ model.dim = expected_features

\* C9: GET /health reports 'healthy' with HTTP 200 exactly when model and scaler
\* are both loaded and the probe is transformed and predicted without raising, and
\* 'unhealthy' with HTTP 503 in every other case.
C9_HealthyIffLoadedAndProbeWorks ==
    Responded({"/health"}) =>
        IF model.bound /\ scaler.bound /\ ProbeSucceeds
        THEN resp.health = "healthy" /\ resp.status = 200
        ELSE resp.health = "unhealthy" /\ resp.status = 503

C9_Witness ==
    /\ Responded({"/health"})
    /\ model.bound /\ scaler.bound /\ ~ProbeSucceeds
    /\ resp.health = "unhealthy"
    /\ resp.status = 503

\* C10 (as claimed): every /health response, with the artifacts loaded or not,
\* carries the fields 'status' ('healthy' or 'unhealthy'), 'model_loaded' and
\* 'prediction_working'.
C10_HealthResponseFields ==
    Responded({"/health"}) =>
        /\ {"status", "model_loaded", "prediction_working"} \subseteq resp.keys
        /\ resp.health \in {"healthy", "unhealthy"}

(***************************************************************************)
(* Concurrent requests: app.run serves every request on a thread of its    *)
(* own; a call of predict() has its own frame of local variables and reads *)
(* the globals scaler and model                                            *)
(***************************************************************************)
NThreads == 2
MaxThreadRows == 2
Threads == 1..NThreads

\* the bodies posted to /predict by concurrent clients
ThreadBodies ==
    {NullBody}
    \cup {Body("dict", TRUE, FBatch(n, MkRow(expected_features, c))) :
             n \in 1..MaxThreadRows, c \in {Num(1), Cell("nan", 0)}}
    \cup {Body("dict", TRUE, FBatchOdd(n, MkRow(expected_features, Num(1)),
                                       MkRow(expected_features, Num(MaxVal)))) :
             n \in 2..MaxThreadRows}

NoResult == Rejected(NoError)
\* the frame of predict(): data, (is_valid, error_msg, features), features_scaled
Frame(pos, data, v, features_scaled, r) ==
    [pc |-> pos, data |-> data, v |-> v, features_scaled |-> features_scaled, resp |-> r]
IdleThread == Frame("idle", NullBody, NoResult, <<>>, EmptyResp)

\* the frame of the call of predict() running on thread t
Local(t) == threads[t]

\* variant: the response kept in one place for all threads
ReturnShared(t, r) ==
    /\ threads' = [u \in Threads |->
                     IF u = t THEN [Local(t) EXCEPT !.pc = "responded", !.resp = r]
                     ELSE IF threads[u].pc = "responded" THEN [threads[u] EXCEPT !.resp = r]
                     ELSE threads[u]]
    /\ UNCHANGED <<apiVars, trainVars, otherVars>>

\* return jsonify(...): the response of this call
Return(t, r) ==
    /\ threads' = [threads EXCEPT ![t] = [Local(t) EXCEPT !.pc = "responded", !.resp = r]]
    /\ UNCHANGED <<apiVars, trainVars, otherVars>>

\* line 166: data = request.get_json()
ThreadReceive(t) ==
    /\ phase = "serving"
    /\ threads[t].pc = "idle"
    /\ \E data \in ThreadBodies :
         threads' = [threads EXCEPT ![t] = [IdleThread EXCEPT !.pc = "received", !.data = data]]
    /\ UNCHANGED <<apiVars, trainVars, otherVars>>

\* lines 169-172: validation of the thread's own payload
ThreadValidate(t) ==
    /\ threads[t].pc = "received"
    /\ LET v == validate_features_input(Local(t).data)
       IN  IF v.raised THEN Return(t, internal_error)
           ELSE IF ~v.is_valid THEN Return(t, BadRequest(v.error_msg))
           ELSE /\ threads' = [threads EXCEPT ![t] =
                                  [Local(t) EXCEPT !.pc = "validated", !.v = v]]
                /\ UNCHANGED <<apiVars, trainVars, otherVars>>

\* line 176: features_scaled = scaler.transform(features)
ThreadTransform(t) ==
    /\ threads[t].pc = "validated"
    /\ IF ~scaler.bound \/ transform_raises(Local(t).v.features)
       THEN Return(t, ServerError(PredictionFailedMsg))
       ELSE /\ threads' = [threads EXCEPT ![t] =
                              [Local(t) EXCEPT !.pc = "scaled",
                                  !.features_scaled = Transform(Local(t).v.features.rows)]]
            /\ UNCHANGED <<apiVars, trainVars, otherVars>>

\* lines 179-192: preds = model.predict(features_scaled); the response
ThreadPredict(t) ==
    /\ threads[t].pc = "scaled"
    /\ IF predict_raises(Local(t).features_scaled)
       THEN Return(t, ServerError(PredictionFailedMsg))
       ELSE Return(t, PredictOk(Flatten(ModelPredict(Local(t).features_scaled))))

\* the response is sent; the thread ends and another request gets one
ThreadComplete(t) ==
    /\ threads[t].pc = "responded"
    /\ threads' = [threads EXCEPT ![t] = IdleThread]
    /\ UNCHANGED <<apiVars, trainVars, otherVars>>

InitThreads ==
    /\ \E env \in {"development", "production"}, files \in ArtifactFiles,
          ragged \in {"raise", "object"} :
             Startup(ChangedConfig(env), BothFiles, files, ragged)
    /\ threads = [t \in Threads |-> IdleThread]
    /\ NoTraining
    /\ OthersIdle

NextThreads ==
    \E t \in Threads :
        \/ ThreadReceive(t)
        \/ ThreadValidate(t)
        \/ ThreadTransform(t)
        \/ ThreadPredict(t)
        \/ ThreadComplete(t)

SpecThreads == InitThreads /\ [][NextThreads]_vars

(***************************************************************************)
(* The training pipeline of src/model/train.py                             *)
(*                                                                         *)
(* A close is a power of two, 2^e with e in 0..MaxExp, so that every       *)
(* log return is a whole multiple of ln 2 and is held as that multiple.    *)
(* A rolling mean is held as window * mean, a rolling standard deviation   *)
(* as window * (window - 1) * variance (in units of ln 2 squared), the RSI *)
(* as the pair of the window sums of gains and of losses: each of these    *)
(* determines the floating-point value pandas computes.                    *)
(***************************************************************************)
MA_SHORT == 5
MA_LONG == 10
RSI_WINDOW == 14

MaxBars == 30        \* a price history has 0..MaxBars bars
MaxHorizon == 5      \* horizon is 1..MaxHorizon
MaxExp == 2          \* closes are 2^0 .. 2^MaxExp

NaN == [nan |-> TRUE, v |-> 0]
Val(x) == [nan |-> FALSE, v |-> x]

\* pd.DataFrame with a Close column; the index holds the bar numbers (dates)
DataFrame(closes) ==
    [index |-> [i \in 1..Len(closes) |-> i], cols |-> [c \in {"Close"} |-> closes]]
\* df[name] = series
assign(df, name, series) ==
    [df EXCEPT !.cols = [c \in (DOMAIN df.cols) \cup {name} |->
                            IF c = name THEN series ELSE df.cols[c]]]

\* np.log(a / b) of two closes, in units of ln 2
Log2(p) == CHOOSE e \in 0..(MaxExp + 1) : 2^e = p
np_log_div(a, b) == IF a.nan \/ b.nan THEN NaN ELSE Val(Log2(a.v) - Log2(b.v))

\* a Series as an array of its values
Series(f) == f \o <<>>

\* variant: a shift that fills the vacated places with a close of 1
shift_filled(s, periods, fill) ==
    Series([i \in 1..Len(s) |-> IF i - periods \in 1..Len(s) THEN s[i - periods] ELSE Val(1)])
\* Series.shift(periods): by position, the vacated places filled with NaN
shift(s, periods, fill) ==
    Series([i \in 1..Len(s) |-> IF i - periods \in 1..Len(s) THEN s[i - periods] ELSE fill])

\* variant: a window that reaches one row ahead
rolling_end_ahead(i) == i + 1
\* Series.rolling(window) at row i: the rows rolling_end - window + 1 .. rolling_end
rolling_end(i) == i
rolling_window(i, window) == (rolling_end(i) - window + 1)..rolling_end(i)

\* min_periods defaults to the window: a result needs `window` observations
full_window(s, i, window) ==
    /\ rolling_window(i, window) \subseteq 1..Len(s)
    /\ \A j \in rolling_window(i, window) : ~s[j].nan

\* the sum of the values of the rows lo..hi
window_sum(s, lo, hi) ==
    LET acc[j \in (lo - 1)..hi] == IF j < lo THEN 0 ELSE acc[j - 1] + s[j].v
    IN  acc[hi]

\* rolling(window).mean(), held as window * mean
rolling_mean(s, window) ==
    Series([i \in 1..Len(s) |->
        IF full_window(s, i, window)
        THEN Val(window_sum(s, rolling_end(i) - window + 1, rolling_end(i)))
        ELSE NaN])

\* variant: the population standard deviation (ddof = 0), defined for one observation
rolling_std_population(s, window) ==
    LET squares == Series([j \in 1..Len(s) |-> Val(s[j].v * s[j].v)])
    IN  Series([i \in 1..Len(s) |->
            IF full_window(s, i, window)
            THEN LET lo == rolling_end(i) - window + 1
                     hi == rolling_end(i)
                     sx == window_sum(s, lo, hi)
                     sxx == window_sum(squares, lo, hi)
                 IN  Val(window * sxx - sx * sx)
            ELSE NaN])

\* rolling(window).std(), ddof = 1: undefined for a single observation;
\* held as window * (window - 1) * variance
rolling_std(s, window) ==
    LET squares == Series([j \in 1..Len(s) |-> Val(s[j].v * s[j].v)])
    IN  Series([i \in 1..Len(s) |->
            IF full_window(s, i, window) /\ window > 1
            THEN LET lo == rolling_end(i) - window + 1
                     hi == rolling_end(i)
                     sx == window_sum(s, lo, hi)
                     sxx == window_sum(squares, lo, hi)
                 IN  Val(window * sxx - sx * sx)
            ELSE NaN])

\* Series.diff()
diff(s) ==
    Series([i \in 1..Len(s) |->
        IF i > 1 /\ ~s[i].nan /\ ~s[i - 1].nan THEN Val(s[i].v - s[i - 1].v) ELSE NaN])

\* delta > 0 and delta < 0: a comparison with NaN is False
greater(s, x) == Series([i \in 1..Len(s) |-> ~s[i].nan /\ s[i].v > x])
less(s, x) == Series([i \in 1..Len(s) |-> ~s[i].nan /\ s[i].v < x])
\* Series.where(cond, other): the value where cond is True, `other` where it is False
where(s, cond, other) ==
    Series([i \in 1..Len(s) |-> IF cond[i] THEN s[i] ELSE Val(other)])

\* -Series
negated(s) == Series([i \in 1..Len(s) |-> IF s[i].nan THEN NaN ELSE Val(-s[i].v)])

\* 100 - 100 / (1 + gain / (loss + 1e-9)), held as the pair (14*gain, 14*loss)
RsiBase == RSI_WINDOW * (2^(MaxExp + 1)) + 1
rsi_of(gain, loss) ==
    Series([i \in 1..Len(gain) |->
        IF gain[i].nan \/ loss[i].nan THEN NaN
        ELSE Val(gain[i].v * RsiBase + loss[i].v)])

\* variant: a dropna that keeps every row
dropna_keeping_all(df) == df
\* DataFrame.dropna(): the rows without a NaN in any column, index kept
dropna(df) ==
    LET n == Len(df.index)
        ok(i) == \A c \in DOMAIN df.cols : ~df.cols[c][i].nan
        kept[i \in 0..n] ==
            IF i = 0 THEN <<>> ELSE IF ok(i) THEN Append(kept[i - 1], i) ELSE kept[i - 1]
        rows == kept[n]
    IN  [index |-> Series([k \in 1..Len(rows) |-> df.index[rows[k]]]),
         cols |-> [c \in DOMAIN df.cols |->
                      Series([k \in 1..Len(rows) |-> df.cols[c][rows[k]]])]]

\* compute_features(), lines 16-29
compute_features(df, h) ==
    LET Close == df.cols["Close"]
        previous == shift(Close, 1, NaN)
        log_return == Series([i \in 1..Len(Close) |-> np_log_div(Close[i], previous[i])])
        delta == diff(Close)
        gain == rolling_mean(where(delta, greater(delta, 0), 0), RSI_WINDOW)
        loss == rolling_mean(negated(where(delta, less(delta, 0), 0)), RSI_WINDOW)
        df1 == assign(df, "log_return", log_return)
        df2 == assign(df1, "volatility", rolling_std(log_return, h))
        df3 == assign(df2, "ma_5", rolling_mean(Close, MA_SHORT))
        df4 == assign(df3, "ma_10", rolling_mean(Close, MA_LONG))
        df5 == assign(df4, "rsi", rsi_of(gain, loss))
    IN  dropna(df5)

\* compute_target(), lines 35-37
compute_target(df, h) ==
    LET Close == df.cols["Close"]
        ahead == shift(Close, -h, NaN)
        future_returns == Series([i \in 1..Len(Close) |-> np_log_div(ahead[i], Close[i])])
    IN  rolling_std(future_returns, h)

FeatureNames == <<"log_return", "volatility", "ma_5", "ma_10", "rsi">>

\* prepare_data(), lines 40-45; `index` is the index of df at line 42, which
\* the .values of lines 43-44 leave behind
prepare_data(df, h) ==
    LET f == compute_features(df, h)
        g == dropna(assign(f, "target_vol", compute_target(f, h)))
    IN  [features |-> Series([k \in 1..Len(g.index) |->
                          Series([c \in 1..Len(FeatureNames) |-> g.cols[FeatureNames[c]][k]])]),
         target |-> g.cols["target_vol"],
         index |-> g.index]

\* a date-ordered history of `len` closes
Trend(len) == [t \in 1..len |-> Val(2^((t * t) % (MaxExp + 1)))]
\* the bar `at` republished with another close, or with none
Republished(closes, at, missing) ==
    [closes EXCEPT ![at] = IF missing THEN NaN
                           ELSE Val(2^((Log2(closes[at].v) + 1) % (MaxExp + 1)))]

\* the API process is not part of a training run
NoService ==
    /\ FLASK_ENV = "development"
    /\ config_errors = <<>>
    /\ np_ragged = "raise"
    /\ phase = "offline"
    /\ model = Unbound
    /\ scaler = Unbound
    /\ pc = "idle"
    /\ req = NoReq
    /\ resp = EmptyResp
    /\ calls = <<>>
    /\ health_seen = ""

InitTrain ==
    /\ NoService
    /\ NoThreads
    /\ OthersIdle
    /\ horizon \in 1..MaxHorizon
    /\ \E len \in 0..MaxBars :
         /\ prices = Trend(len)
         /\ \/ revised = prices
            \/ \E at \in 1..len, missing \in BOOLEAN :
                 revised = Republished(prices, at, missing)
    /\ called = ""
    /\ returned = <<>>

\* the function returns; the caller holds its result for both histories
Returned(fn, r1, r2) ==
    /\ called' = fn
    /\ returned' = <<r1, r2>>
    /\ UNCHANGED <<apiVars, threadVars, prices, revised, horizon, otherVars>>

ComputeFeatures ==
    /\ horizon >= 1
    /\ called = ""
    /\ Returned("compute_features", compute_features(DataFrame(prices), horizon),
                compute_features(DataFrame(revised), horizon))
\* the Series compute_target returns carries the index of its frame
indexed(df, s) == [index |-> df.index, values |-> s]
ComputeTarget ==
    /\ horizon >= 1
    /\ called = ""
    /\ Returned("compute_target",
                indexed(DataFrame(prices), compute_target(DataFrame(prices), horizon)),
                indexed(DataFrame(revised), compute_target(DataFrame(revised), horizon)))
PrepareData ==
    /\ horizon >= 1
    /\ called = ""
    /\ Returned("prepare_data", prepare_data(DataFrame(prices), horizon),
                prepare_data(DataFrame(revised), horizon))

NextTrain == ComputeFeatures \/ ComputeTarget \/ PrepareData

SpecTrain == InitTrain /\ [][NextTrain]_vars

(***************************************************************************)
(* Process-wide state                                                      *)
(***************************************************************************)
\* C11: no request handler rebinds or modifies the process-wide model or scaler:
\* every step of the service leaves them as startup bound them; a /health call
\* leaves the service state as it was, and answers with the status that the
\* /health call before it reported.
C11_HandlersLeaveModelAndScaler ==
    [][/\ model' = model
       /\ scaler' = scaler
       /\ HealthCheck =>
            /\ <<FLASK_ENV, np_ragged, phase>>' = <<FLASK_ENV, np_ragged, phase>>
            /\ health_seen # "" => resp'.health = health_seen]_vars

\* a /health request dispatched after an earlier one was answered
C11_Witness ==
    /\ pc = "received"
    /\ req.route = "/health"
    /\ health_seen \in {"healthy", "unhealthy"}

\* C13 (as claimed): every GET /metrics response is HTTP 200 and carries
\* 'model_info', 'system_info' and 'timestamp', whatever the state of the service.
C13_MetricsAlways200 ==
    Responded({"/metrics"}) =>
        /\ resp.status = 200
        /\ {"model_info", "system_info", "timestamp"} \subseteq resp.keys

\* a thread has answered its request and not yet ended
Answered(t) == threads # <<>> /\ threads[t].pc = "responded"

\* C12: whatever requests were handled before and whatever the other threads are
\* doing, the response of a /predict request is the response predict() gives to
\* that request's body alone with the loaded scaler and model; two answered
\* requests with the same body have the same response.
C12_ResponseAsWhenRunAlone ==
    \A t \in Threads :
        Answered(t) =>
            /\ threads[t].resp = predict(threads[t].data).resp
            /\ \A u \in Threads :
                 Answered(u) /\ threads[u].data = threads[t].data
                    => threads[u].resp = threads[t].resp

\* a request answered with predictions while another thread, with another
\* batch, is between its own transform and predict
C12_Witness ==
    \E t, u \in Threads :
        /\ Answered(t)
        /\ threads[t].resp.status = 200
        /\ threads[t].resp.num_predictions = MaxThreadRows
        /\ threads[u].pc = "scaled"
        /\ threads[u].data # threads[t].data

(***************************************************************************)
(* Training pipeline                                                       *)
(***************************************************************************)
Bars == Len(prices)
\* the bar that was republished, 0 when none was
RevisedAt == IF revised = prices THEN 0 ELSE CHOOSE t \in 1..Bars : revised[t] # prices[t]
NoMissing(closes) == \A t \in 1..Len(closes) : ~closes[t].nan

\* C14 (as claimed): the target compute_target gives to row t depends only on
\* the bars after t: two histories that differ only in a bar at or before t have
\* the same target at t, wherever both targets are defined.
C14_TargetIgnoresBarsUpToT ==
    called = "compute_target" /\ RevisedAt # 0 =>
        \A t \in RevisedAt..Bars :
            ~returned[1].values[t].nan /\ ~returned[2].values[t].nan
                => returned[1].values[t] = returned[2].values[t]

\* the row of a frame that carries the index label t, 0 when there is none
RowOf(index, t) ==
    IF \E k \in 1..Len(index) : index[k] = t
    THEN CHOOSE k \in 1..Len(index) : index[k] = t
    ELSE 0
FeatureRow(df, k) == Series([c \in 1..Len(FeatureNames) |-> df.cols[FeatureNames[c]][k]])

\* C15: the five feature values of an emitted row t are decided by the closes
\* of the bars up to t: a history that differs only in a bar after t gives the
\* same row t with the same five values (compute_features), and the same five
\* values wherever prepare_data returns row t for both.
C15_FeaturesIgnoreLaterBars ==
    /\ called = "compute_features" /\ RevisedAt # 0 =>
          \A k \in 1..Len(returned[1].index) :
              returned[1].index[k] < RevisedAt =>
                  /\ RowOf(returned[2].index, returned[1].index[k]) = k
                  /\ FeatureRow(returned[2], k) = FeatureRow(returned[1], k)
    /\ called = "prepare_data" /\ RevisedAt # 0 =>
          \A k \in 1..Len(returned[1].index) :
              LET t == returned[1].index[k]
                  k2 == RowOf(returned[2].index, t)
              IN  t < RevisedAt /\ k2 # 0 =>
                      returned[2].features[k2] = returned[1].features[k]

\* rows before the republished bar are emitted, and a row from it on differs
C15_Witness ==
    /\ called = "compute_features"
    /\ RevisedAt # 0
    /\ \E k \in 1..Len(returned[1].index) : returned[1].index[k] < RevisedAt
    /\ \E k \in 1..Len(returned[1].index) :
          /\ returned[1].index[k] >= RevisedAt
          /\ RowOf(returned[2].index, returned[1].index[k]) # 0
          /\ FeatureRow(returned[2], RowOf(returned[2].index, returned[1].index[k]))
                # FeatureRow(returned[1], k)

\* the two histories a state holds, with what the called function returned for each
Histories == {1, 2}
History(r) == IF r = 1 THEN prices ELSE revised

\* C16 (as claimed): on a 30-bar history without missing values and horizon 5,
\* prepare_data returns exactly 30 - 14 - 5 = 11 feature rows and 11 targets.
C16_ThirtyBarsGiveElevenRows ==
    called = "prepare_data" /\ Bars = 30 /\ horizon = 5 /\ NoMissing(prices) =>
        /\ Len(returned[1].features) = 30 - RSI_WINDOW - 5
        /\ Len(returned[1].target) = 30 - RSI_WINDOW - 5

\* C17: no row returned by prepare_data holds an undefined value in any of its
\* five features or in its target.
C17_ReturnedRowsHaveNoNaN ==
    called = "prepare_data" =>
        \A r \in Histories :
            /\ Len(returned[r].features) = Len(returned[r].target)
            /\ \A k \in 1..Len(returned[r].target) :
                  /\ ~returned[r].target[k].nan
                  /\ \A c \in 1..Len(FeatureNames) : ~returned[r].features[k][c].nan

\* rows are returned from a history with a missing close
C17_Witness ==
    /\ called = "prepare_data"
    /\ ~NoMissing(revised)
    /\ Len(returned[2].target) > 0
    /\ Len(returned[2].target) < Len(returned[1].target)

\* the closes of the bars lo..hi all exist
Observed(closes, lo, hi) == lo >= 1 /\ \A s \in lo..hi : ~closes[s].nan

\* C18 (as claimed): compute_features emits row t only if every window of the
\* row is full of actual observations: 2 closes for log_return, `horizon` log
\* returns for volatility, 5 and 10 closes for the moving averages, and 14 actual
\* price deltas (the closes of bars t-14..t) for the RSI.
C18_EmittedRowsHaveFullWindows ==
    called = "compute_features" =>
        \A r \in Histories :
            \A k \in 1..Len(returned[r].index) :
                LET t == returned[r].index[k]
                IN  /\ Observed(History(r), t - 1, t)
                    /\ Observed(History(r), t - horizon, t)
                    /\ Observed(History(r), t - MA_SHORT + 1, t)
                    /\ Observed(History(r), t - MA_LONG + 1, t)
                    /\ Observed(History(r), t - RSI_WINDOW, t)

\* C19: a history with fewer than 14 + horizon bars, the empty one included,
\* makes prepare_data return zero feature rows and zero targets.
C19_ShortHistoryGivesNoRows ==
    called = "prepare_data" =>
        \A r \in Histories :
            Len(History(r)) < RSI_WINDOW + horizon =>
                /\ Len(returned[r].features) = 0
                /\ Len(returned[r].target) = 0

\* a history one bar short of 14 + horizon, which leaves compute_features rows
C19_Witness ==
    /\ called = "prepare_data"
    /\ horizon > 1
    /\ Bars = RSI_WINDOW + horizon - 1
    /\ NoMissing(prices)
    /\ Len(compute_features(DataFrame(prices), horizon).index) = horizon
    /\ Len(returned[1].target) = 0

\* the label of the bar whose close Close.shift(-horizon) puts against row t of
\* the frame compute_target is given, 0 when there is none
ForwardBar(closes, t) ==
    LET f == compute_features(DataFrame(closes), horizon)
    IN  shift(f.index, -horizon, 0)[RowOf(f.index, t)]

\* C20 (as claimed): the forward return behind the target of a returned row t
\* is taken against the bar exactly `horizon` bars after t in the original
\* history.
C20_TargetAgainstBarHorizonAhead ==
    called = "prepare_data" =>
        \A r \in Histories :
            \A k \in 1..Len(returned[r].index) :
                LET t == returned[r].index[k]
                IN  ForwardBar(History(r), t) = t + horizon

(***************************************************************************)
(* Totality of the validator                                               *)
(***************************************************************************)
\* C25 (as claimed): for every parsed JSON body validate_features_input returns
\* a triple without raising; is_valid = True comes with an empty error_msg and
\* the parsed 2-D array, is_valid = False with a non-empty error_msg and no array.
C25_ValidateIsTotal ==
    Responded(PostRoutes) =>
        LET v == validate_features_input(req.data)
        IN  /\ ~v.raised
            /\ v.is_valid => v.error_msg = NoError /\ ndim(v.features) = 2
            /\ ~v.is_valid => v.error_msg # NoError /\ v.features = ArrRaised

(***************************************************************************)
(* The smallest horizon                                                    *)
(***************************************************************************)
\* C30: with horizon = 1 the volatility of every row and the target of every
\* row are undefined, so compute_features emits no row and prepare_data
\* returns zero rows, whatever the history and its length.
C30_HorizonOneGivesNoRows ==
    horizon = 1 =>
        \A r \in Histories :
            /\ called = "compute_features" => Len(returned[r].index) = 0
            /\ called = "compute_target" =>
                  \A t \in 1..Len(returned[r].values) : returned[r].values[t].nan
            /\ called = "prepare_data" =>
                  Len(returned[r].features) = 0 /\ Len(returned[r].target) = 0

\* the longest history without a missing close, which has rows for horizon 2
C30_Witness ==
    /\ called = "prepare_data"
    /\ horizon = 1
    /\ Bars = MaxBars
    /\ NoMissing(prices)
    /\ Len(prepare_data(DataFrame(prices), 2).target) > 0
    /\ Len(returned[1].target) = 0

\* the sum of a sequence of numbers
SumOf(s) ==
    LET sum[k \in 0..Len(s)] == IF k = 0 THEN 0 ELSE s[k] + sum[k - 1]
    IN  sum[Len(s)]

\* the one row of a single-row payload, scaled
ExplainedRow == TransformRow(RowAt(req.data.feat, 1))

\* C21: for a single explained row (sample budget 100, zero-vector baseline) the
\* attributions returned by /explain number exactly one per feature (5 for the row)
\* and sum to predictor(row) - predictor(baseline); attributions are held as 5! times
\* their value, and the equality is exact, hence within every tolerance.
C21_AttributionsSumToPredictionGap ==
    (Responded({"/explain"}) /\ resp.status = 200 /\ req.data.feat.n = 1) =>
        /\ Len(resp.shap_values) = 1
        /\ Len(resp.shap_values[1]) = expected_features
        /\ SumOf(resp.shap_values[1])
              = Factorial(expected_features) * (resp.predictions[1] - Predictor(ZeroRow))

C21_Witness ==
    /\ Responded({"/explain"})
    /\ resp.status = 200
    /\ req.data.feat.n = 1
    /\ Invoked("explainer.shap_values")
    /\ resp.predictions[1] # Predictor(ZeroRow)
    /\ resp.shap_values[1] # ShapRowOwnTerm(ExplainedRow)
    /\ \A j \in 1..expected_features : resp.shap_values[1][j] # 0

(***************************************************************************)
(* SpecExplain: explanation runs of one scaled row each, lines 222-232 of  *)
(* explain(), in API processes whose numpy generator was never seeded      *)
(***************************************************************************)
MaxRuns == 2
MaxSeed == 2
MaxRandomState == 1

\* the seeds a caller may want a run to use
Seeds == 1..MaxSeed
\* the states numpy's global generator starts a process in (OS entropy)
RandomStates == 0..MaxRandomState
\* the scaled rows that are explained
ExplainedRows == {TransformRow(MkRow(expected_features, Num(v))) : v \in 0..MaxVal}

\* shap.KernelExplainer(model.predict, background).shap_values(row, nsamples=100):
\* the call names no seed and no generator; coalitions the budget leaves out would
\* be drawn from numpy's global generator, and at 5 features none is left out, so
\* no number is drawn
KernelExplainer(z, random_state) ==
    [shap_values |-> ShapRow(z),
     drawn |-> IF nsamples >= 2 ^ Len(z) - 2 THEN 0 ELSE 1]

\* one run of the try block of explain() for a caller that wants `seed` used
Run(seed, z, random_state, shap_vals) ==
    [seed |-> seed, z |-> z, random_state |-> random_state, shap_values |-> shap_vals]

InitExplain ==
    /\ \E env \in {"development", "production"}, ragged \in {"raise", "object"} :
          Startup(ChangedConfig(env), BothFiles, "trained", ragged)
    /\ NoThreads
    /\ NoTraining
    /\ NoValidating
    /\ NoScript
    /\ NoDashboard
    /\ np_random \in RandomStates
    /\ runs = <<>>

ExplainRun ==
    /\ Len(runs) < MaxRuns
    /\ \E seed \in Seeds, z \in ExplainedRows :
          LET e == KernelExplainer(z, np_random)
          IN  /\ runs' = Append(runs, Run(seed, z, np_random, e.shap_values))
              /\ np_random' = (np_random + e.drawn) % (MaxRandomState + 1)
    /\ UNCHANGED <<apiVars, threadVars, trainVars, configVars, scriptVars, dashVars>>

\* the API process is started again: its generator starts from fresh entropy
Restart ==
    /\ runs # <<>>
    /\ np_random' \in RandomStates
    /\ UNCHANGED <<apiVars, threadVars, trainVars, runs, configVars, scriptVars, dashVars>>

NextExplain == ExplainRun \/ Restart
SpecExplain == InitExplain /\ [][NextExplain]_vars

\* C22: the explainer accepts an injectable random source, so that two explanation
\* runs on the same scaled rows with the same predictor and the same seed draw from
\* the same source and return identical attributions.
C22_SameSeedSameSourceAndAttributions ==
    \A i, j \in 1..Len(runs) :
        (runs[i].z = runs[j].z /\ runs[i].seed = runs[j].seed) =>
            /\ runs[i].random_state = runs[j].random_state
            /\ runs[i].shap_values = runs[j].shap_values

(***************************************************************************)
(* SpecConfig: Config.validate() called on a Config instance               *)
(***************************************************************************)
Environments == {"development", "production", "testing"}
Configs ==
    {Config(env, secret, jwt, model_path, scaler_path) :
        env \in Environments, secret \in Secrets, jwt \in JwtSecrets,
        model_path \in {"", DefaultModelPath}, scaler_path \in {"", DefaultScalerPath}}

InitConfig ==
    /\ NoService
    /\ NoThreads
    /\ NoTraining
    /\ NoExplaining
    /\ NoScript
    /\ NoDashboard
    /\ config \in Configs
    /\ disk \in Disks
    /\ validated = NotCalled

Validate ==
    /\ validated = NotCalled
    /\ validated' = validate(config, disk)
    /\ UNCHANGED <<apiVars, threadVars, trainVars, explainVars, config, disk, scriptVars, dashVars>>

NextConfig == Validate
SpecConfig == InitConfig /\ [][NextConfig]_vars

\* the problems validate() looks for, read off the settings and the disk
Problems ==
    (IF config.SECRET_KEY = DevSecretKey THEN {SecretKeyMsg} ELSE {})
    \cup (IF config.JWT_SECRET_KEY = DevJwtSecretKey THEN {JwtSecretKeyMsg} ELSE {})
    \cup (IF config.MODEL_PATH \notin disk THEN {ModelNotFoundMsg} ELSE {})
    \cup (IF config.SCALER_PATH \notin disk THEN {ScalerNotFoundMsg} ELSE {})

\* C23: in production mode Config.validate returns one message per problem found
\* (SECRET_KEY or JWT_SECRET_KEY at its development default, model or scaler file
\* not on disk), hence a non-empty list whenever there is a problem; in every other
\* mode it returns the empty list whatever the other settings are.
C23_ValidateReportsEachProblemInProduction ==
    validated # NotCalled =>
        IF config.FLASK_ENV = "production"
        THEN /\ Problems # {} => validated # <<>>
             /\ Len(validated) = Cardinality(Problems)
             /\ {validated[k].msg : k \in 1..Len(validated)} = Problems
        ELSE validated = <<>>

C23_Witness ==
    /\ validated # NotCalled
    /\ config.FLASK_ENV = "production"
    /\ config.SECRET_KEY = DevSecretKey
    /\ config.JWT_SECRET_KEY # DevJwtSecretKey
    /\ config.MODEL_PATH \in disk
    /\ config.SCALER_PATH \notin disk
    /\ Len(validated) = 2
    /\ validated[1].msg = SecretKeyMsg

\* the import of api/app.py ran into a failure: validation reported an error, or the
\* load left the names model and scaler unbound
StartupFailed == config_errors # <<>> \/ ~model.bound \/ ~scaler.bound
\* no route has served or is serving a request
NothingServed == pc = "idle" /\ resp = EmptyResp /\ calls = <<>> /\ health_seen = ""

\* C24: in production the API process aborts during startup, before any route serves
\* a request, if configuration validation reports an error or loading the model or
\* scaler fails, so a production process that serves a request has a valid
\* configuration and both model and scaler loaded; in non-production mode the same
\* failures do not stop the process, which serves.
C24_ProductionAbortsOnStartupFailure ==
    /\ (FLASK_ENV = "production" /\ StartupFailed) => (phase = "aborted" /\ NothingServed)
    /\ (FLASK_ENV = "production" /\ ~NothingServed) =>
          (phase = "serving" /\ config_errors = <<>> /\ model.bound /\ scaler.bound)
    /\ FLASK_ENV # "production" => phase = "serving"
    /\ phase = "aborted" => NothingServed

C24_Witness ==
    /\ FLASK_ENV = "production"
    /\ Responded({"/predict"})
    /\ resp.status = 200
    /\ config_errors = <<>>
    /\ model.bound /\ scaler.bound

\* a production process whose configuration is valid and whose load failed
ProductionAbortedOnLoad ==
    /\ FLASK_ENV = "production"
    /\ config_errors = <<>>
    /\ ~model.bound
    /\ phase = "aborted"

\* a development process whose load failed answers a request
DevelopmentServesAfterFailure ==
    /\ FLASK_ENV = "development"
    /\ ~model.bound
    /\ Responded({"/predict"})

(***************************************************************************)
(* SpecRunLocal: src/run_local.py, the script and the children it spawns   *)
(***************************************************************************)
RUN_LOCAL_POLLS == 10

Running(c) == children[c].state \in {"starting", "answering"}
Spawned(c) == [children EXCEPT ![c] = Child("starting", {})]

\* Popen.terminate(): SIGTERM; the child exits on it unless it has exited already
terminate(ch, handle) ==
    IF handle = None THEN ch
    ELSE [ch EXCEPT ![handle] =
            Child(IF @.state = "unspawned" THEN @.state ELSE "exited", @.sent \cup {"SIGTERM"})]

\* check_port(5000): an HTTP 200 from /health on the port
check_port == external_api \/ children["api"].state = "answering"

NoOtherParts ==
    /\ NoService
    /\ NoThreads
    /\ NoTraining
    /\ NoExplaining
    /\ NoValidating
    /\ NoDashboard

InitRunLocal ==
    /\ NoOtherParts
    /\ script_pc = "start_api"
    /\ api_process = None
    /\ dashboard_process = None
    /\ children = [c \in ChildNames |-> Child("unspawned", {})]
    /\ polls = 0
    /\ external_api \in BOOLEAN

Untouched == UNCHANGED <<apiVars, threadVars, trainVars, explainVars, configVars, dashVars>>

\* start_api, lines 27-34: return None when the port answers, else spawn the API
RunLocalStartApi ==
    /\ script_pc = "start_api"
    /\ IF check_port
       THEN script_pc' = "after_start_api" /\ UNCHANGED children
       ELSE script_pc' = "polling" /\ children' = Spawned("api")
    /\ UNCHANGED <<api_process, dashboard_process, polls, external_api>>
    /\ Untouched

\* start_api, lines 37-45: one iteration of the loop, or the return after the last;
\* the handle is returned on a 200 and dropped on `return None`
RunLocalPoll ==
    /\ script_pc = "polling"
    /\ IF polls = RUN_LOCAL_POLLS
       THEN /\ script_pc' = "after_start_api"
            /\ UNCHANGED <<api_process, polls>>
       ELSE IF check_port
       THEN /\ script_pc' = "after_start_api"
            /\ api_process' = "api"
            /\ UNCHANGED polls
       ELSE /\ polls' = polls + 1
            /\ UNCHANGED <<script_pc, api_process>>
    /\ UNCHANGED <<dashboard_process, children, external_api>>
    /\ Untouched

\* main, lines 86-91: exit when there is no handle and the port does not answer,
\* else start_dashboard
RunLocalAfterStartApi ==
    /\ script_pc = "after_start_api"
    /\ IF api_process = None /\ ~check_port
       THEN script_pc' = "exited" /\ UNCHANGED <<dashboard_process, children>>
       ELSE /\ script_pc' = "running"
            /\ dashboard_process' = "dashboard"
            /\ children' = Spawned("dashboard")
    /\ UNCHANGED <<api_process, polls, external_api>>
    /\ Untouched

\* main, lines 112-127: Ctrl+C in the loop; to_group: the terminal delivers the
\* interrupt to the children as well, which exit on it
RunLocalKeyboardInterrupt ==
    /\ script_pc = "running"
    /\ \E to_group \in BOOLEAN :
          LET stopped == terminate(terminate(children, api_process), dashboard_process)
          IN  children' =
                 IF to_group
                 THEN [c \in ChildNames |->
                         IF Running(c) THEN Child("exited", stopped[c].sent \cup {"SIGINT"})
                         ELSE stopped[c]]
                 ELSE stopped
    /\ script_pc' = "exited"
    /\ UNCHANGED <<api_process, dashboard_process, polls, external_api>>
    /\ Untouched

\* a spawned child finishes starting up and answers on its port
ChildAnswers ==
    /\ script_pc # "exited"
    /\ \E c \in ChildNames :
          /\ children[c].state = "starting"
          /\ children' = [children EXCEPT ![c].state = "answering"]
    /\ UNCHANGED <<script_pc, api_process, dashboard_process, polls, external_api>>
    /\ Untouched

\* a spawned child exits by itself (an exception during its startup)
ChildExits ==
    /\ script_pc # "exited"
    /\ \E c \in ChildNames :
          /\ children[c].state = "starting"
          /\ children' = [children EXCEPT ![c].state = "exited"]
    /\ UNCHANGED <<script_pc, api_process, dashboard_process, polls, external_api>>
    /\ Untouched

NextRunLocal ==
    \/ RunLocalStartApi
    \/ RunLocalPoll
    \/ RunLocalAfterStartApi
    \/ RunLocalKeyboardInterrupt
    \/ ChildAnswers
    \/ ChildExits
SpecRunLocal == InitRunLocal /\ [][NextRunLocal]_vars

\* C26: run_local stops all services it started: when the script has exited (by
\* Ctrl+C after startup, or through the 'Failed to start API. Exiting.' path) no API
\* or dashboard child that the script spawned is left running.
C26_NoChildLeftRunningAtExit ==
    script_pc = "exited" => \A c \in ChildNames : ~Running(c)

(***************************************************************************)
(* SpecDeployLocal: src/deploy_local.py, whose api_process and             *)
(* dashboard_process are module globals read by the SIGINT handler         *)
(***************************************************************************)
DEPLOY_LOCAL_POLLS == 15

\* terminate(), wait(timeout=5) and, on TimeoutExpired, kill() for one handle;
\* slow: the children that do not exit within 5 seconds of SIGTERM
stop_process(ch, handle, slow) ==
    IF handle = None THEN ch
    ELSE [ch EXCEPT ![handle] =
            Child("exited",
                  @.sent \cup (IF handle \in slow /\ @.state # "exited"
                               THEN {"SIGTERM", "SIGKILL"} ELSE {"SIGTERM"}))]

\* cleanup_processes(), lines 26-44
cleanup_processes(ch, slow) ==
    stop_process(stop_process(ch, api_process, slow), dashboard_process, slow)

InitDeployLocal ==
    /\ NoOtherParts
    /\ script_pc = "start_api"
    /\ api_process = None
    /\ dashboard_process = None
    /\ children = [c \in ChildNames |-> Child("unspawned", {})]
    /\ polls = 0
    /\ external_api = FALSE

\* start_api, lines 77-84: Popen has created the child; the assignment to the
\* global api_process is the next step
DeploySpawnApi ==
    /\ script_pc = "start_api"
    /\ children' = Spawned("api")
    /\ script_pc' = "api_spawned"
    /\ UNCHANGED <<api_process, dashboard_process, polls, external_api>>
    /\ Untouched

\* start_api, line 81: api_process = <the Popen object>
DeployRecordApi ==
    /\ script_pc = "api_spawned"
    /\ api_process' = "api"
    /\ script_pc' = "polling"
    /\ UNCHANGED <<dashboard_process, children, polls, external_api>>
    /\ Untouched

\* start_api, lines 88-96: one iteration of the loop, or `return False` after the last
DeployPoll ==
    /\ script_pc = "polling"
    /\ IF polls = DEPLOY_LOCAL_POLLS
       THEN script_pc' = "failed" /\ UNCHANGED polls
       ELSE IF check_port
       THEN script_pc' = "start_dashboard" /\ UNCHANGED polls
       ELSE polls' = polls + 1 /\ UNCHANGED script_pc
    /\ UNCHANGED <<api_process, dashboard_process, children, external_api>>
    /\ Untouched

\* main, lines 196-199: cleanup_processes() and sys.exit(1)
DeployFailedToStart ==
    /\ script_pc = "failed"
    /\ \E slow \in SUBSET ChildNames : children' = cleanup_processes(children, slow)
    /\ script_pc' = "exited"
    /\ UNCHANGED <<api_process, dashboard_process, polls, external_api>>
    /\ Untouched

\* start_dashboard, lines 105-112: Popen has created the child
DeploySpawnDashboard ==
    /\ script_pc = "start_dashboard"
    /\ children' = Spawned("dashboard")
    /\ script_pc' = "dashboard_spawned"
    /\ UNCHANGED <<api_process, dashboard_process, polls, external_api>>
    /\ Untouched

\* start_dashboard, line 109: dashboard_process = <the Popen object>
DeployRecordDashboard ==
    /\ script_pc = "dashboard_spawned"
    /\ dashboard_process' = "dashboard"
    /\ script_pc' = "dashboard_waiting"
    /\ UNCHANGED <<api_process, children, polls, external_api>>
    /\ Untouched

\* start_dashboard, lines 116-128, test_services and open_browser, up to the loop of
\* main at line 239
DeployKeepRunning ==
    /\ script_pc = "dashboard_waiting"
    /\ script_pc' = "running"
    /\ UNCHANGED <<api_process, dashboard_process, children, polls, external_api>>
    /\ Untouched

\* signal_handler, lines 20-24, installed at line 176: cleanup_processes() and
\* sys.exit(0). swallowed: the SystemExit is raised inside a try block with a bare
\* `except:` (check_port, lines 48-52; start_dashboard, lines 119-125) and the script
\* goes on. to_group: the terminal delivers the interrupt to the children as well.
DeploySigint ==
    /\ script_pc \notin {"", "exited"}
    /\ \E slow \in SUBSET ChildNames, to_group \in BOOLEAN, swallowed \in BOOLEAN :
          LET stopped == cleanup_processes(children, slow)
          IN  /\ swallowed => script_pc \in {"polling", "dashboard_waiting"}
              /\ children' =
                    IF to_group
                    THEN [c \in ChildNames |->
                            IF Running(c)
                            THEN Child("exited", stopped[c].sent \cup {"SIGINT"})
                            ELSE stopped[c]]
                    ELSE stopped
              /\ script_pc' = IF swallowed THEN script_pc ELSE "exited"
    /\ UNCHANGED <<api_process, dashboard_process, polls, external_api>>
    /\ Untouched

NextDeployLocal ==
    \/ DeploySpawnApi
    \/ DeployRecordApi
    \/ DeployPoll
    \/ DeployFailedToStart
    \/ DeploySpawnDashboard
    \/ DeployRecordDashboard
    \/ DeployKeepRunning
    \/ DeploySigint
    \/ ChildAnswers
    \/ ChildExits
SpecDeployLocal == InitDeployLocal /\ [][NextDeployLocal]_vars

\* C27: deploy_local cleans up all processes: when the script has exited, after
\* start_api reported failure or after a SIGINT received at any point after a child
\* was spawned, every spawned child has been terminated (and killed if it did not exit
\* within 5 seconds), so no spawned child outlives the script.
C27_NoChildOutlivesTheScript ==
    script_pc = "exited" => \A c \in ChildNames : ~Running(c)

\* the same for the children recorded in api_process / dashboard_process
C27_RecordedChildrenAreStopped ==
    script_pc = "exited" =>
        /\ api_process # None => (~Running("api") /\ "SIGTERM" \in children["api"].sent)
        /\ dashboard_process # None =>
              (~Running("dashboard") /\ "SIGTERM" \in children["dashboard"].sent)

(***************************************************************************)
(* SpecDashboard: the callbacks update_output and show_shap_explanation of *)
(* src/dashboard/app.py, driven by a user of the page                      *)
(***************************************************************************)
MaxFrameRows == 2
MaxClicks == 2
MaxEdits == 2
TABLE_ROWS == 10

\* the values of FEATURE_OPTIONS, the initial value of the feature dropdown
FEATURE_OPTIONS == <<"log_return", "volatility", "ma_5", "ma_10", "rsi">>
OptionValues == {FEATURE_OPTIONS[k] : k \in 1..Len(FEATURE_OPTIONS)}

\* an uploaded CSV with the five feature columns: the cell of a row and a column, so
\* that a value tells where it comes from
read_csv(n) == [i \in 1..n |-> [f \in OptionValues |-> [row |-> i, column |-> f]]]

\* df[features].values.tolist(): the columns in the order of `features`
values_tolist(df, features) ==
    [i \in 1..Len(df) |-> [j \in 1..Len(features) |-> df[i][features[j]]]]

\* X[:10]
head(X, n) == [i \in 1..(IF Len(X) < n THEN Len(X) ELSE n) |-> X[i]]

\* the value without f, the others in their order
without(features, f) ==
    LET keep[k \in 0..Len(features)] ==
            IF k = 0 THEN <<>>
            ELSE IF features[k] = f THEN keep[k - 1] ELSE Append(keep[k - 1], features[k])
    IN  keep[Len(features)]

\* n_clicks of a button: None until the page reports a click, else a number
NoClicks == [none |-> TRUE, n |-> 0]
Clicks(n) == [none |-> FALSE, n |-> n]

\* the status the API answers a /predict request with: 400 unless every row has the
\* expected number of entries; 500 stands for every failure of a valid request
predict_status(X) ==
    IF Len(X) >= 1 /\ \A i \in 1..Len(X) : Len(X[i]) = expected_features
    THEN {200, 500} ELSE {400}

InitDashboard ==
    /\ NoService
    /\ NoThreads
    /\ NoTraining
    /\ NoExplaining
    /\ NoValidating
    /\ NoScript
    /\ upload_data \in {NoData} \cup {Data(read_csv(n)) : n \in 1..MaxFrameRows}
    /\ feature_dropdown = FEATURE_OPTIONS
    /\ edits = 0
    /\ last_pred_features = NoData
    /\ n_clicks_list = <<>>
    /\ clicked = 0
    /\ posted = NoPost

NotTheDashboard ==
    UNCHANGED <<apiVars, threadVars, trainVars, explainVars, configVars, scriptVars>>

\* the user removes a feature from the dropdown
Deselect ==
    /\ edits < MaxEdits
    /\ \E f \in OptionValues :
          /\ \E k \in 1..Len(feature_dropdown) : feature_dropdown[k] = f
          /\ feature_dropdown' = without(feature_dropdown, f)
    /\ edits' = edits + 1
    /\ UNCHANGED <<upload_data, last_pred_features, n_clicks_list, clicked, posted>>
    /\ NotTheDashboard

\* the user picks a feature in the dropdown (multi=True): it is added at the end
Select ==
    /\ edits < MaxEdits
    /\ \E f \in OptionValues :
          /\ \A k \in 1..Len(feature_dropdown) : feature_dropdown[k] # f
          /\ feature_dropdown' = Append(feature_dropdown, f)
    /\ edits' = edits + 1
    /\ UNCHANGED <<upload_data, last_pred_features, n_clicks_list, clicked, posted>>
    /\ NotTheDashboard

\* the outputs of update_output that leave the page without table and buttons
NoTable ==
    /\ last_pred_features' = NoData
    /\ n_clicks_list' = <<>>

\* update_output(), lines 158-243, on a click on the predict button; unset: what the
\* page reports for an Explain button that was never clicked, None or 0
update_output ==
    /\ clicked' = 0
    /\ IF upload_data.none
       THEN posted' = NoPost /\ NoTable
       ELSE LET df == upload_data.rows
                X == values_tolist(df, feature_dropdown)
            IN  /\ posted' = Post("/predict", X)
                /\ \E status \in predict_status(X), unset \in {NoClicks, Clicks(0)} :
                      IF status = 200
                      THEN /\ last_pred_features' = Data(head(X, TABLE_ROWS))
                           /\ n_clicks_list' = [i \in 1..Len(head(df, TABLE_ROWS)) |-> unset]
                      ELSE NoTable
    /\ UNCHANGED <<upload_data, feature_dropdown, edits>>
    /\ NotTheDashboard

\* any(n_clicks_list)
any_clicked(list) == \E k \in 1..Len(list) : ~list[k].none /\ list[k].n > 0
\* max() raises TypeError when it has to compare None
max_raises(list) == Len(list) >= 2 /\ \E k \in 1..Len(list) : list[k].none
\* n_clicks_list.index(max(n_clicks_list)): the first position of the greatest count
index_of_max(list) ==
    CHOOSE k \in 1..Len(list) :
        /\ \A m \in 1..Len(list) : list[m].n <= list[k].n
        /\ \A m \in 1..(k - 1) : list[m].n < list[k].n

\* show_shap_explanation(), lines 252-298, with the list the page reports
show_shap_explanation(list) ==
    IF ~any_clicked(list) THEN NoPost
    ELSE IF max_raises(list) THEN NoPost
    ELSE LET idx == index_of_max(list)
         IN  IF last_pred_features.none \/ idx > Len(last_pred_features.rows) THEN NoPost
             ELSE Post("/explain", <<last_pred_features.rows[idx]>>)

\* the user clicks the Explain button of index i: the page counts the click and the
\* callback runs
ClickExplain ==
    /\ \E i \in 1..Len(n_clicks_list) :
          /\ n_clicks_list[i].n < MaxClicks
          /\ n_clicks_list' = [n_clicks_list EXCEPT ![i] = Clicks(@.n + 1)]
          /\ clicked' = i
    /\ posted' = show_shap_explanation(n_clicks_list')
    /\ UNCHANGED <<upload_data, feature_dropdown, edits, last_pred_features>>
    /\ NotTheDashboard

NextDashboard == Deselect \/ Select \/ update_output \/ ClickExplain
SpecDashboard == InitDashboard /\ [][NextDashboard]_vars

\* C28: for every sequence of clicks on the Explain buttons, the /explain request sent
\* after a click contains exactly one row, the feature row at the index of the button
\* that was clicked last.
C28_ExplainsTheRowClickedLast ==
    posted.route = "/explain" =>
        /\ Len(posted.rows) = 1
        /\ posted.rows[1] = last_pred_features.rows[clicked]

\* C29: every /predict and /explain request sent by the dashboard with all five features
\* selected has its row entries in the API's fixed feature order [log_return,
\* volatility, ma_5, ma_10, rsi], whatever the order in which the user selected,
\* deselected and reselected features.
C29_RowsInApiFeatureOrder ==
    posted # NoPost =>
        \A i \in 1..Len(posted.rows) :
            Len(posted.rows[i]) = expected_features =>
                \A j \in 1..expected_features : posted.rows[i][j].column = FeatureNames[j]

====
